---- MODULE Spec2Model ----
(***************************************************************************)
(* The orchestration core of the receptionist framework:                   *)
(*   ReceptionistCore  (core_engine.py)                                    *)
(*   ModuleManager     (module_manager.py)                                 *)
(*   PerformanceMonitor (performance_monitor.py)                           *)
(* The pluggable stages (interfaces.py) are black boxes: every call of a   *)
(* stage method may return any value of its contract or raise.             *)
(***************************************************************************)
EXTENDS Integers, Sequences, FiniteSets, TLC

\* ------------------------------------------------------------------ bounds
\* process_audio is not started once this many interactions are recorded.
MaxInteractions == 2

\* record_interaction is not called once this many interactions are recorded.
MaxCount == 10

\* record_metric is not called with arbitrary entries once the log is this
\* long,
MaxLog == 2

\* with entries of LongLogEntries not once it is this long,
MaxLongLog == 11

\* and with entries of GroupEntries not once it is this long.
MaxGroupLog == 3

\* ------------------------------------------------------------------ values
None == "None"

\* data_models.SystemState
SystemState == {"IDLE", "LISTENING", "PROCESSING", "RESPONDING", "ERROR"}

\* Implementations that can be handed to a set_* operation.
StageImpls == {"mock"}

\* An implementation installed by an earlier set_* call.
EarlierImpls == {"real"}

\* Keys under which a domain module can be registered ("" is a legal dict key).
DomainNames == {"", "hotel"}

\* DomainModule instances.
ModuleObjects == {"m1", "m2"}

\* The producer recorded in DialogueResponse.module by the fallback generator.
Generic == "generic"

\* IntentResult.intent ("" is the no-specific-intent sentinel).
Intents == {"", "book_room"}

\* confidence values a stage reports, in tenths
Confidences == {9}

\* Entries of a direct record_metric call. The two keys the feedback report
\* reads, values in tenths, one of them no confidence at all:
ThresholdEntries ==
    {[component |-> c, metric_name |-> "confidence", value |-> v] :
        c \in {"stt", "intent_recognizer"}, v \in {-1, 6, 7, 8}}

\* the entries a long log is made of:
LongLogEntries ==
    {[component |-> "stt", metric_name |-> "confidence", value |-> v] :
        v \in {6, 8}}

\* and entries under free names, with and without a dot.
GroupEntries ==
    {[component |-> k[1], metric_name |-> k[2], value |-> v] :
        k \in {<<"a", "x">>, <<"a", "b.x">>, <<"a.b", "x">>}, v \in {1, 3}}

MetricInputs == ThresholdEntries \cup LongLogEntries \cup GroupEntries

\* Keys of the two registries of the gateway.
Endpoints == {"/status", "/book"}

SystemNames == {"hotel_management"}

\* The callables registered there.
Handlers == {"h1", "h2"}

\* What a handler can return: dicts, one of them with an "error" entry.
HandlerResults == {[booking |-> "confirmed"], [error |-> "declined"]}

\* str(e) of the exceptions a handler can raise.
HandlerErrors == {"timeout"}

\* The process_audio invocations that run at the same time.
Invocations == {"a", "b"}

\* The /llm_chat requests the server is working on at the same time.
Requests == {"r1", "r2"}

\* What a call of initialize(), detect() or supports_intent() can do
\* ("raise": it raises an Exception).
BoolOutcomes == {"true", "false", "raise"}

\* What a call of handle() or generate() can do.
ResponseOutcomes == {"response", "none", "raise"}

VARIABLES
    state,               \* ReceptionistCore.state
    activation_engine,   \* ReceptionistCore.activation_engine
    stt_processor,       \* ReceptionistCore.stt_processor
    intent_recognizer,   \* ReceptionistCore.intent_recognizer
    response_generator,  \* ReceptionistCore.response_generator
    modules,             \* ModuleManager.modules
    active_module,       \* ModuleManager.active_module
    metrics,             \* PerformanceMonitor.metrics
    interaction_count,   \* PerformanceMonitor.interaction_count
    error_count,         \* PerformanceMonitor.error_count
    pc,                  \* position of the running process_audio
    transcribed,         \* local of process_audio
    intent_result,       \* local of process_audio
    response,            \* local of process_audio
    result,              \* value process_audio returns
    calls,               \* stage calls made by the running invocation
    visited,             \* values state took during the running invocation
    entry,               \* the monitor as it was when the invocation began
    running,             \* ReceptionistCore.running
    op,                  \* the configuration or lifecycle call that just ran
    routes,              \* APIGateway.routes
    external_systems,    \* APIGateway.external_systems
    dispatch,            \* a process_with_module running in a thread of its own
    invocations,         \* the monitor writes of concurrent process_audio runs
    llm                  \* the globals of llm_server and its running requests

stages == <<activation_engine, stt_processor, intent_recognizer, response_generator>>
registry == <<modules, active_module>>
counters == <<interaction_count, error_count>>
monitor == <<metrics, interaction_count, error_count>>
locals == <<transcribed, intent_result, response>>
history == <<calls, visited, entry>>
api == <<running, op>>
gateway == <<routes, external_systems>>
concurrent == <<dispatch, invocations, llm>>
outside == <<gateway, concurrent>>
vars == <<state, stages, registry, monitor, pc, locals, result, history, api,
          outside>>

NoEntry == [interaction_count |-> 0, error_count |-> 0, metrics |-> <<>>]
NoTranscribed == [confidence |-> 0]
NoIntent == [intent |-> "", confidence |-> 0]
NoOp == [name |-> "none"]
NoDispatch == [pc |-> "idle", module |-> None, log |-> <<>>]
NoInvocation == [pc |-> "idle", recorded |-> <<>>, success |-> TRUE, read |-> 0]
NoRequest == [pc |-> "idle", status |-> 0, late |-> FALSE]

\* The configured stages, by role.
StageSlots ==
    [activation_engine |-> activation_engine,
     stt_processor |-> stt_processor,
     intent_recognizer |-> intent_recognizer,
     response_generator |-> response_generator]

\* What a call can change, as it is when the call begins.
Snapshot ==
    [state |-> state,
     stages |-> StageSlots,
     modules |-> modules,
     active_module |-> active_module,
     running |-> running,
     metrics |-> metrics,
     interaction_count |-> interaction_count,
     error_count |-> error_count]

\* No call is running: the caller may make the next one.
Idle == pc = "idle" /\ op = NoOp

Init ==
    /\ state = "IDLE"
    /\ activation_engine = None
    /\ stt_processor = None
    /\ intent_recognizer = None
    /\ response_generator = None
    /\ modules = [n \in DomainNames |-> None]
    /\ active_module = None
    /\ metrics = <<>>
    /\ interaction_count = 0
    /\ error_count = 0
    /\ pc = "idle"
    /\ transcribed = NoTranscribed
    /\ intent_result = NoIntent
    /\ response = None
    /\ result = None
    /\ calls = <<>>
    /\ visited = <<>>
    /\ entry = NoEntry
    /\ running = FALSE
    /\ op = NoOp
    /\ routes = [endpoint \in Endpoints |-> None]
    /\ external_systems = [system_name \in SystemNames |-> None]
    /\ dispatch = NoDispatch
    /\ invocations = [t \in Invocations |-> NoInvocation]
    /\ llm = [system_initialized |-> FALSE,
              initialization_lock |-> FALSE,
              api_gateway |-> None,
              requests |-> [r \in Requests |-> NoRequest]]

\* ------------------------------------------------------ PerformanceMonitor
\* record_metric that drops a negative value.
record_metric_validating(component, metric_name, value) ==
    metrics' = IF value < 0
               THEN metrics
               ELSE Append(metrics, [component |-> component,
                                     metric_name |-> metric_name,
                                     value |-> value])

record_metric(component, metric_name, value) ==
    metrics' = Append(metrics, [component |-> component,
                                metric_name |-> metric_name,
                                value |-> value])

\* record_interaction with the test of `success` inverted.
record_interaction_inverted(success) ==
    /\ interaction_count' = interaction_count + 1
    /\ error_count' = IF success THEN error_count + 1 ELSE error_count

\* record_interaction that counts a failure as an error only.
record_interaction_errors_only(success) ==
    /\ interaction_count' = IF success THEN interaction_count + 1
                            ELSE interaction_count
    /\ error_count' = IF success THEN error_count ELSE error_count + 1

record_interaction(success) ==
    /\ interaction_count' = interaction_count + 1
    /\ error_count' = IF success THEN error_count ELSE error_count + 1

\* The grouping key of the two names of a metric as pair.
MetricKeyPair(metric) == <<metric.component, metric.metric_name>>

\* `f"{metric.component}.{metric.metric_name}"`
MetricKey(metric) == metric.component \o "." \o metric.metric_name

\* The values recorded under `key`, in the order of the log.
MetricValues(key) ==
    LET matching == SelectSeq(metrics, LAMBDA metric : MetricKey(metric) = key)
    IN  [i \in 1..Len(matching) |-> matching[i].value]

RECURSIVE Sum(_)
Sum(values) ==
    IF values = <<>> THEN 0 ELSE values[1] + Sum(Tail(values))

Min(values) ==
    CHOOSE v \in {values[i] : i \in 1..Len(values)} :
        \A i \in 1..Len(values) : v <= values[i]

Max(values) ==
    CHOOSE v \in {values[i] : i \in 1..Len(values)} :
        \A i \in 1..Len(values) : v >= values[i]

\* A quotient a / b of two integers is kept as the pair <<a, b>>; the
\* integer 0 is <<0, 1>>.
Quotient(a, b) == <<a, b>>

Zero == Quotient(0, 1)

\* The 10 of `self.metrics[-10:]`
RecentWindow == 10

\* The first entries of the log in place of the last ones.
recent_of_head(log) ==
    SubSeq(log, 1, IF Len(log) > RecentWindow THEN RecentWindow ELSE Len(log))

\* `self.metrics[-10:]`: the last ten entries, or all of a shorter log.
recent_of(log) ==
    SubSeq(log,
           IF Len(log) > RecentWindow THEN Len(log) - RecentWindow + 1 ELSE 1,
           Len(log))

\* The summary dict, without the session duration read off the clock.
get_metrics_summary ==
    IF metrics = <<>>
    THEN [message |-> "No metrics recorded",
          interaction_count |-> interaction_count,
          error_count |-> error_count]
    ELSE LET keys == {MetricKey(metrics[i]) : i \in 1..Len(metrics)}
         IN  [total_metrics |-> Len(metrics),
              total_interactions |-> interaction_count,
              total_errors |-> error_count,
              error_rate |-> IF interaction_count > 0
                             THEN Quotient(error_count, interaction_count)
                             ELSE Zero,
              statistics |->
                  [key \in keys |->
                      LET values == MetricValues(key)
                      IN  [count |-> Len(values),
                           average |-> Quotient(Sum(values), Len(values)),
                           min |-> Min(values),
                           max |-> Max(values),
                           total |-> Sum(values)]],
              recent_metrics |-> recent_of(metrics)]

\* p < q for two quotients with positive denominators.
Less(p, q) == p[1] * q[2] < q[1] * p[2]

\* `summary.get(field)`, `summary.get(field, default)`
SummaryGet(summary, field, default) ==
    IF field \in DOMAIN summary THEN summary[field] ELSE default

\* `key in summary.get("statistics", {})`
HasStatistics(summary, key) ==
    "statistics" \in DOMAIN summary /\ key \in DOMAIN summary.statistics

\* The thresholds 0.1, 0.7 and 0.8; confidences are kept in tenths.
ErrorRateThreshold == Quotient(1, 10)

IntentConfidenceThreshold == Quotient(7, 1)

SttConfidenceThreshold == Quotient(8, 1)

HighErrorRate == "High error rate detected: Review module implementations"

LowIntentConfidence ==
    "Low intent recognition confidence: Consider retraining NLU model"

LowSttConfidence == "Low STT confidence: Optimize speech-to-text settings"

PerformanceGood == "System performance is good. Continue monitoring."

\* The report with thresholds that trip at the threshold value too.
feedback_of_non_strict(summary) ==
    LET on_error_rate ==
            IF ~Less(SummaryGet(summary, "error_rate", Zero), ErrorRateThreshold)
            THEN <<HighErrorRate>> ELSE <<>>
        intent_key == "intent_recognizer.confidence"
        on_intent ==
            IF /\ HasStatistics(summary, intent_key)
               /\ ~Less(IntentConfidenceThreshold,
                        summary.statistics[intent_key].average)
            THEN <<LowIntentConfidence>> ELSE <<>>
        stt_key == "stt.confidence"
        on_stt ==
            IF /\ HasStatistics(summary, stt_key)
               /\ ~Less(SttConfidenceThreshold, summary.statistics[stt_key].average)
            THEN <<LowSttConfidence>> ELSE <<>>
        recommendations == on_error_rate \o on_intent \o on_stt
    IN  [total_interactions |-> SummaryGet(summary, "total_interactions", None),
         error_rate |-> SummaryGet(summary, "error_rate", None),
         performance_data |-> summary,
         recommendations |-> IF recommendations = <<>>
                             THEN <<PerformanceGood>>
                             ELSE recommendations]

\* The report dict, without the timestamp and the session duration read off
\* the clock.
feedback_of(summary) ==
    LET on_error_rate ==
            IF Less(ErrorRateThreshold, SummaryGet(summary, "error_rate", Zero))
            THEN <<HighErrorRate>> ELSE <<>>
        intent_key == "intent_recognizer.confidence"
        on_intent ==
            IF /\ HasStatistics(summary, intent_key)
               /\ Less(summary.statistics[intent_key].average,
                       IntentConfidenceThreshold)
            THEN <<LowIntentConfidence>> ELSE <<>>
        stt_key == "stt.confidence"
        on_stt ==
            IF /\ HasStatistics(summary, stt_key)
               /\ Less(summary.statistics[stt_key].average, SttConfidenceThreshold)
            THEN <<LowSttConfidence>> ELSE <<>>
        recommendations == on_error_rate \o on_intent \o on_stt
    IN  [total_interactions |-> SummaryGet(summary, "total_interactions", None),
         error_rate |-> SummaryGet(summary, "error_rate", None),
         performance_data |-> summary,
         recommendations |-> IF recommendations = <<>>
                             THEN <<PerformanceGood>>
                             ELSE recommendations]

get_feedback_report == feedback_of(get_metrics_summary)

\* ------------------------------------------------------------ ModuleManager
IsRegistered(domain_name) == modules[domain_name] # None

\* The module objects held by the registry.
RegisteredObjects == {modules[n] : n \in {d \in DomainNames : modules[d] # None}}

\* `self.active_module and self.active_module in self.modules`: None and ""
\* are both falsy.
get_active_module ==
    IF active_module # None /\ active_module # "" /\ IsRegistered(active_module)
    THEN modules[active_module]
    ELSE None

\* register_module storing the module before it looks at initialize().
register_module_eager ==
    /\ Idle
    /\ \E domain_name \in DomainNames, module \in ModuleObjects, init \in BoolOutcomes :
          /\ modules' = [modules EXCEPT ![domain_name] = module]
          /\ op' = [name |-> "register_module",
                    domain_name |-> domain_name,
                    module |-> module,
                    log |-> << <<"initialize", init, module>> >>,
                    ret |-> (init = "true"),
                    pre |-> Snapshot]
    /\ UNCHANGED <<state, stages, active_module, monitor, pc, locals, result,
                   history, running,
                   outside>>

register_module ==
    /\ Idle
    /\ \E domain_name \in DomainNames, module \in ModuleObjects, init \in BoolOutcomes :
          /\ modules' = IF init = "true"
                        THEN [modules EXCEPT ![domain_name] = module]
                        ELSE modules
          /\ op' = [name |-> "register_module",
                    domain_name |-> domain_name,
                    module |-> module,
                    log |-> << <<"initialize", init, module>> >>,
                    ret |-> (init = "true"),
                    pre |-> Snapshot]
    /\ UNCHANGED <<state, stages, active_module, monitor, pc, locals, result,
                   history, running,
                   outside>>

\* switch_module without the test that the name is registered.
switch_module_unchecked ==
    /\ Idle
    /\ \E domain_name \in DomainNames :
          /\ active_module' = domain_name
          /\ op' = [name |-> "switch_module",
                    domain_name |-> domain_name,
                    log |-> <<>>,
                    ret |-> IsRegistered(domain_name),
                    pre |-> Snapshot]
    /\ UNCHANGED <<state, stages, modules, monitor, pc, locals, result,
                   history, running,
                   outside>>

\* switch_module initializing the module it switches to.
switch_module_reinit ==
    /\ Idle
    /\ \E domain_name \in DomainNames, init \in BoolOutcomes :
          /\ active_module' = IF IsRegistered(domain_name) THEN domain_name
                              ELSE active_module
          /\ op' = [name |-> "switch_module",
                    domain_name |-> domain_name,
                    log |-> IF IsRegistered(domain_name)
                            THEN << <<"initialize", init, modules[domain_name]>> >>
                            ELSE <<>>,
                    ret |-> IsRegistered(domain_name),
                    pre |-> Snapshot]
    /\ UNCHANGED <<state, stages, modules, monitor, pc, locals, result,
                   history, running,
                   outside>>

switch_module ==
    /\ Idle
    /\ \E domain_name \in DomainNames :
          /\ active_module' = IF IsRegistered(domain_name) THEN domain_name
                              ELSE active_module
          /\ op' = [name |-> "switch_module",
                    domain_name |-> domain_name,
                    log |-> <<>>,
                    ret |-> IsRegistered(domain_name),
                    pre |-> Snapshot]
    /\ UNCHANGED <<state, stages, modules, monitor, pc, locals, result,
                   history, running,
                   outside>>

\* A dispatch that asks every registered module, not only the active one.
process_with_module_any ==
    IF RegisteredObjects = {}
    THEN {[log |-> <<>>, raised |-> FALSE, response |-> None]}
    ELSE UNION {
           {[log |-> << <<"supports_intent", "false", module>> >>,
             raised |-> FALSE, response |-> None],
            [log |-> << <<"supports_intent", "raise", module>> >>,
             raised |-> TRUE, response |-> None]}
           \cup
           {[log |-> << <<"supports_intent", "true", module>>,
                        <<"handle", out, module>> >>,
             raised |-> (out = "raise"),
             response |-> IF out = "response" THEN module ELSE None]
              : out \in ResponseOutcomes}
           : module \in RegisteredObjects}

\* The ways one dispatch can go: the calls it makes on the active module,
\* whether one of them raised, and the response it returns.
process_with_module ==
    LET module == get_active_module IN
    IF module = None
    THEN {[log |-> <<>>, raised |-> FALSE, response |-> None]}
    ELSE {[log |-> << <<"supports_intent", "false", module>> >>,
           raised |-> FALSE, response |-> None],
          [log |-> << <<"supports_intent", "raise", module>> >>,
           raised |-> TRUE, response |-> None]}
         \cup
         {[log |-> << <<"supports_intent", "true", module>>,
                      <<"handle", out, module>> >>,
           raised |-> (out = "raise"),
           response |-> IF out = "response" THEN module ELSE None]
            : out \in ResponseOutcomes}

\* What a call of cleanup() can do.
CleanupOutcomes == {"return", "raise"}

RegisteredNames == {n \in DomainNames : IsRegistered(n)}

\* The orders in which the entries of a dict with these keys can be visited.
Orders(keys) ==
    {order \in [1..Cardinality(keys) -> keys] :
        \A i, j \in 1..Cardinality(keys) : i # j => order[i] # order[j]}

\* A loop that lets the first raising cleanup() end it.
cleanup_all_logs_abort ==
    LET N == Cardinality(RegisteredNames)
        log(order, k, out) ==
            [i \in 1..k |-> <<"cleanup", IF i = k THEN out ELSE "return",
                              modules[order[i]]>>]
    IN  {log(order, N, "return") : order \in Orders(RegisteredNames)}
        \cup {log(order, k, "raise") :
                 order \in Orders(RegisteredNames), k \in 1..N}

\* The ways one cleanup_all can go: the cleanup() call made for each entry of
\* the registry, each of which may raise (logged, and the loop goes on).
cleanup_all_logs ==
    {[i \in 1..Cardinality(RegisteredNames) |->
         <<"cleanup", outs[i], modules[order[i]]>>] :
       order \in Orders(RegisteredNames),
       outs \in [1..Cardinality(RegisteredNames) -> CleanupOutcomes]}

\* cleanup_all without `self.modules.clear()`.
cleanup_all_keeps_registry ==
    /\ pc = "idle"
    /\ op.name \in {"none", "cleanup_all"}
    /\ \E log \in cleanup_all_logs :
          op' = [name |-> "cleanup_all", after |-> op.name, log |-> log,
                 pre |-> Snapshot]
    /\ active_module' = None
    /\ UNCHANGED <<state, stages, modules, monitor, pc, locals, result, history,
                   running, outside>>

\* A call of cleanup_all may follow another one directly; `after` names the
\* call it follows.
cleanup_all ==
    /\ pc = "idle"
    /\ op.name \in {"none", "cleanup_all"}
    /\ \E log \in cleanup_all_logs :
          op' = [name |-> "cleanup_all", after |-> op.name, log |-> log,
                 pre |-> Snapshot]
    /\ modules' = [n \in DomainNames |-> None]
    /\ active_module' = None
    /\ UNCHANGED <<state, stages, monitor, pc, locals, result, history, running,
                   outside>>

\* --------------------------------------------- ReceptionistCore: configuration
set_activation_engine ==
    /\ Idle
    /\ \E engine \in StageImpls, init \in BoolOutcomes :
          /\ activation_engine' = IF init = "true" THEN engine ELSE activation_engine
          /\ op' = [name |-> "set_activation_engine",
                    role |-> "activation_engine",
                    stage |-> engine,
                    log |-> << <<"initialize", init, engine>> >>,
                    ret |-> (init = "true"),
                    pre |-> Snapshot]
    /\ UNCHANGED <<state, stt_processor, intent_recognizer, response_generator,
                   registry, monitor, pc, locals, result, history, running,
                   outside>>

\* set_stt_processor storing the processor before it looks at initialize().
set_stt_processor_eager ==
    /\ Idle
    /\ \E processor \in StageImpls, init \in BoolOutcomes :
          /\ stt_processor' = processor
          /\ op' = [name |-> "set_stt_processor",
                    role |-> "stt_processor",
                    stage |-> processor,
                    log |-> << <<"initialize", init, processor>> >>,
                    ret |-> (init = "true"),
                    pre |-> Snapshot]
    /\ UNCHANGED <<state, activation_engine, intent_recognizer, response_generator,
                   registry, monitor, pc, locals, result, history, running,
                   outside>>

set_stt_processor ==
    /\ Idle
    /\ \E processor \in StageImpls, init \in BoolOutcomes :
          /\ stt_processor' = IF init = "true" THEN processor ELSE stt_processor
          /\ op' = [name |-> "set_stt_processor",
                    role |-> "stt_processor",
                    stage |-> processor,
                    log |-> << <<"initialize", init, processor>> >>,
                    ret |-> (init = "true"),
                    pre |-> Snapshot]
    /\ UNCHANGED <<state, activation_engine, intent_recognizer, response_generator,
                   registry, monitor, pc, locals, result, history, running,
                   outside>>

set_intent_recognizer ==
    /\ Idle
    /\ \E recognizer \in StageImpls, init \in BoolOutcomes :
          /\ intent_recognizer' = IF init = "true" THEN recognizer ELSE intent_recognizer
          /\ op' = [name |-> "set_intent_recognizer",
                    role |-> "intent_recognizer",
                    stage |-> recognizer,
                    log |-> << <<"initialize", init, recognizer>> >>,
                    ret |-> (init = "true"),
                    pre |-> Snapshot]
    /\ UNCHANGED <<state, activation_engine, stt_processor, response_generator,
                   registry, monitor, pc, locals, result, history, running,
                   outside>>

set_response_generator ==
    /\ Idle
    /\ \E generator \in StageImpls, init \in BoolOutcomes :
          /\ response_generator' = IF init = "true" THEN generator ELSE response_generator
          /\ op' = [name |-> "set_response_generator",
                    role |-> "response_generator",
                    stage |-> generator,
                    log |-> << <<"initialize", init, generator>> >>,
                    ret |-> (init = "true"),
                    pre |-> Snapshot]
    /\ UNCHANGED <<state, activation_engine, stt_processor, intent_recognizer,
                   registry, monitor, pc, locals, result, history, running,
                   outside>>

\* ------------------------------------------- ReceptionistCore.process_audio
\* The state assignments of the pipeline.
ListeningState == "LISTENING"
\* The assignment of PROCESSING left out.
ProcessingStateSkipped == state
ProcessingState == "PROCESSING"
RespondingState == "RESPONDING"
ErrorState == "ERROR"
\* The finally block left out.
FinallyStateKept == state
FinallyState == "IDLE"

\* A process_audio that refuses to start on a core that is not running.
ListenWhenRunning ==
    /\ Idle
    /\ running
    /\ interaction_count < MaxInteractions
    /\ state' = ListeningState
    /\ pc' = "activation"
    /\ result' = None
    /\ calls' = <<>>
    /\ visited' = <<state, state'>>
    /\ entry' = [interaction_count |-> interaction_count,
                 error_count |-> error_count,
                 metrics |-> metrics]
    /\ UNCHANGED <<stages, registry, monitor, locals>>
    /\ UNCHANGED <<api, outside>>

\* try: self.state = LISTENING
Listen ==
    /\ Idle
    /\ interaction_count < MaxInteractions
    /\ state' = ListeningState
    /\ pc' = "activation"
    /\ result' = None
    /\ calls' = <<>>
    /\ visited' = <<state, state'>>
    /\ entry' = [interaction_count |-> interaction_count,
                 error_count |-> error_count,
                 metrics |-> metrics]
    /\ UNCHANGED <<stages, registry, monitor, locals>>
    /\ UNCHANGED <<api, outside>>

\* `if not self.activation_engine.detect(audio_frame)`
WakeWordDetected(out) == out = "true"

\* Non-detection recorded as a failed interaction.
NotDetectedCounted ==
    /\ result' = None
    /\ pc' = "finally"
    /\ record_interaction(FALSE)

\* "Wake word not detected": return None
NotDetected ==
    /\ result' = None
    /\ pc' = "finally"
    /\ UNCHANGED counters

\* Step 1: wake word activation (optional)
Activation ==
    /\ pc = "activation"
    /\ IF activation_engine = None
       THEN /\ pc' = "stt"
            /\ UNCHANGED <<calls, result, counters>>
       ELSE \E out \in BoolOutcomes :
              /\ calls' = Append(calls, <<"detect", out, activation_engine>>)
              /\ IF out = "raise"
                 THEN pc' = "except" /\ UNCHANGED <<result, counters>>
                 ELSE IF WakeWordDetected(out)
                      THEN pc' = "stt" /\ UNCHANGED <<result, counters>>
                      ELSE NotDetected
    /\ UNCHANGED <<state, stages, registry, metrics, locals, visited, entry>>
    /\ UNCHANGED <<api, outside>>

\* The missing transcription stage not recorded.
SttMissingUncounted ==
    /\ state' = ErrorState
    /\ UNCHANGED counters
    /\ result' = None
    /\ pc' = "finally"

\* "STT processor not configured"
SttMissing ==
    /\ state' = ErrorState
    /\ record_interaction(FALSE)
    /\ result' = None
    /\ pc' = "finally"

\* Step 2: the transcription stage is required
SttCheck ==
    /\ pc = "stt"
    /\ IF stt_processor = None
       THEN SttMissing
       ELSE /\ state' = ProcessingState
            /\ pc' = "transcribe"
            /\ UNCHANGED <<counters, result>>
    /\ visited' = Append(visited, state')
    /\ UNCHANGED <<stages, registry, metrics, locals, calls, entry>>
    /\ UNCHANGED <<api, outside>>

\* transcribe, then record_metric("stt", "confidence", transcribed.confidence)
Transcribe ==
    /\ pc = "transcribe"
    /\ \/ /\ calls' = Append(calls, <<"transcribe", "raise", stt_processor>>)
          /\ pc' = "except"
          /\ UNCHANGED <<transcribed, metrics>>
       \/ \E confidence \in Confidences :
             /\ calls' = Append(calls, <<"transcribe", "return", stt_processor>>)
             /\ transcribed' = [confidence |-> confidence]
             /\ record_metric("stt", "confidence", confidence)
             /\ pc' = "nlu"
    /\ UNCHANGED <<state, stages, registry, counters, intent_result, response,
                   result, visited, entry>>
    /\ UNCHANGED <<api, outside>>

\* The `return None` of the missing-recognizer branch left out.
IntentMissingFallsThrough ==
    /\ state' = ErrorState
    /\ record_interaction(FALSE)
    /\ result' = None
    /\ pc' = "respond"

\* "Intent recognizer not configured"
IntentMissing ==
    /\ state' = ErrorState
    /\ record_interaction(FALSE)
    /\ result' = None
    /\ pc' = "finally"

\* Step 3: recognize, then record_metric("intent_recognizer", "confidence", ...)
Recognize ==
    /\ pc = "nlu"
    /\ IF intent_recognizer = None
       THEN /\ IntentMissing
            /\ visited' = Append(visited, state')
            /\ UNCHANGED <<calls, intent_result, metrics>>
       ELSE /\ \/ /\ calls' = Append(calls, <<"recognize", "raise", intent_recognizer>>)
                  /\ pc' = "except"
                  /\ UNCHANGED <<intent_result, metrics>>
               \/ \E intent \in Intents, confidence \in Confidences :
                     /\ calls' = Append(calls, <<"recognize", "return", intent_recognizer>>)
                     /\ intent_result' = [intent |-> intent, confidence |-> confidence]
                     /\ record_metric("intent_recognizer", "confidence", confidence)
                     /\ pc' = "respond"
            /\ UNCHANGED <<state, counters, result, visited>>
    /\ UNCHANGED <<stages, registry, transcribed, response, entry>>
    /\ UNCHANGED <<api, outside>>

\* Step 4: self.state = RESPONDING; try the domain module first
\* The response step taking a raising module as a module without response.
RespondSwallowing ==
    /\ pc = "respond"
    /\ state' = RespondingState
    /\ visited' = Append(visited, state')
    /\ \E d \in process_with_module :
          /\ calls' = calls \o d.log
          /\ pc' = "fallback"
          /\ response' = d.response
    /\ UNCHANGED <<stages, registry, monitor, transcribed, intent_result, result, entry>>
    /\ UNCHANGED <<api, outside>>

Respond ==
    /\ pc = "respond"
    /\ state' = RespondingState
    /\ visited' = Append(visited, state')
    /\ \E d \in process_with_module :
          /\ calls' = calls \o d.log
          /\ IF d.raised
             THEN pc' = "except" /\ UNCHANGED response
             ELSE pc' = "fallback" /\ response' = d.response
    /\ UNCHANGED <<stages, registry, monitor, transcribed, intent_result, result, entry>>
    /\ UNCHANGED <<api, outside>>

\* The fallback tried whether or not the module responded.
NeedsFallbackAlways == response_generator # None

\* The fallback tried only when no module is active.
NeedsFallbackNoModule ==
    response = None /\ response_generator # None /\ get_active_module = None

\* `if not response and self.response_generator`
NeedsFallback == response = None /\ response_generator # None

\* Fall back to the generic response generator
Fallback ==
    /\ pc = "fallback"
    /\ IF NeedsFallback
       THEN \E out \in ResponseOutcomes :
              /\ calls' = Append(calls, <<"generate", out, response_generator>>)
              /\ IF out = "raise"
                 THEN pc' = "except" /\ UNCHANGED response
                 ELSE /\ pc' = "record"
                      /\ response' = IF out = "response" THEN Generic ELSE None
       ELSE pc' = "record" /\ UNCHANGED <<calls, response>>
    /\ UNCHANGED <<state, stages, registry, monitor, transcribed, intent_result,
                   result, visited, entry>>
    /\ UNCHANGED <<api, outside>>

\* Every invocation that reaches the end recorded as a success.
RecordOutcomeAlwaysSuccess ==
    /\ pc = "record"
    /\ record_interaction(TRUE)
    /\ result' = response
    /\ pc' = "finally"
    /\ UNCHANGED <<state, stages, registry, metrics, locals, history>>
    /\ UNCHANGED <<api, outside>>

\* `if response: record_interaction(True); return response
\*  else: record_interaction(False); return None`
RecordOutcome ==
    /\ pc = "record"
    /\ IF response # None
       THEN record_interaction(TRUE) /\ result' = response
       ELSE record_interaction(FALSE) /\ result' = None
    /\ pc' = "finally"
    /\ UNCHANGED <<state, stages, registry, metrics, locals, history>>
    /\ UNCHANGED <<api, outside>>

\* The handler without its record_interaction.
ExceptHandlerSilent ==
    /\ state' = ErrorState
    /\ UNCHANGED counters
    /\ result' = None

\* The handler recording its failure on top of one already recorded.
ExceptHandlerTwice ==
    /\ state' = ErrorState
    /\ interaction_count' = interaction_count + 2
    /\ error_count' = error_count + 1
    /\ result' = None

\* except Exception: state = ERROR; record_interaction(False); return None
ExceptHandler ==
    /\ state' = ErrorState
    /\ record_interaction(FALSE)
    /\ result' = None

Except ==
    /\ pc = "except"
    /\ ExceptHandler
    /\ visited' = Append(visited, state')
    /\ pc' = "finally"
    /\ UNCHANGED <<stages, registry, metrics, locals, calls, entry>>
    /\ UNCHANGED <<api, outside>>

\* finally: self.state = IDLE
Finally ==
    /\ pc = "finally"
    /\ state' = FinallyState
    /\ visited' = Append(visited, state')
    /\ pc' = "returned"
    /\ UNCHANGED <<stages, registry, monitor, locals, result, calls, entry>>
    /\ UNCHANGED <<api, outside>>

\* The caller has the returned value; the locals of the invocation are gone.
Return ==
    /\ pc = "returned"
    /\ pc' = "idle"
    /\ transcribed' = NoTranscribed
    /\ intent_result' = NoIntent
    /\ response' = None
    /\ result' = None
    /\ calls' = <<>>
    /\ visited' = <<>>
    /\ entry' = NoEntry
    /\ UNCHANGED <<state, stages, registry, monitor>>
    /\ UNCHANGED <<api, outside>>

process_audio ==
    \/ Listen
    \/ Activation
    \/ SttCheck
    \/ Transcribe
    \/ Recognize
    \/ Respond
    \/ Fallback
    \/ RecordOutcome
    \/ Except
    \/ Finally
    \/ Return

\* ------------------------------------------------ ReceptionistCore: lifecycle
start ==
    /\ Idle
    /\ running' = TRUE
    /\ op' = [name |-> "start", log |-> <<>>, pre |-> Snapshot]
    /\ UNCHANGED <<state, stages, registry, monitor, pc, locals, result, history,
                   outside>>

stop ==
    /\ Idle
    /\ running' = FALSE
    /\ op' = [name |-> "stop", log |-> <<>>, pre |-> Snapshot]
    /\ UNCHANGED <<state, stages, registry, monitor, pc, locals, result, history,
                   outside>>

\* The order in which cleanup() visits the stages.
RoleOrder ==
    <<"activation_engine", "stt_processor", "intent_recognizer", "response_generator">>

ConfiguredRoles == SelectSeq(RoleOrder, LAMBDA role : StageSlots[role] # None)

\* The ways the stage cleanups of one cleanup() can go: `failed` is the
\* position of the first stage whose cleanup() raises (0: none does); the
\* stages before it return, the stages after it are not reached.
stage_cleanup_runs ==
    {[failed |-> k,
      log |-> [i \in 1..(IF k = 0 THEN Len(ConfiguredRoles) ELSE k) |->
                 <<"cleanup", IF i = k THEN "raise" ELSE "return", ConfiguredRoles[i]>>]] :
       k \in 0..Len(ConfiguredRoles)}

\* One try block around everything: the first cleanup() that raises ends it.
cleanup ==
    /\ Idle
    /\ \E run \in stage_cleanup_runs :
          IF run.failed = 0
          THEN \E log \in cleanup_all_logs :
                  /\ op' = [name |-> "cleanup", log |-> run.log \o log,
                            pre |-> Snapshot]
                  /\ modules' = [n \in DomainNames |-> None]
                  /\ active_module' = None
                  /\ routes' = [endpoint \in Endpoints |-> None]
                  /\ external_systems' = [system_name \in SystemNames |-> None]
                  /\ running' = FALSE
                  /\ state' = "IDLE"
          ELSE /\ op' = [name |-> "cleanup", log |-> run.log, pre |-> Snapshot]
               /\ UNCHANGED <<registry, running, state, gateway>>
    /\ UNCHANGED <<stages, monitor, pc, locals, result, history, concurrent>>

\* The caller has the outcome of the configuration or lifecycle call.
Complete ==
    /\ pc = "idle"
    /\ op # NoOp
    /\ op' = NoOp
    /\ UNCHANGED <<state, stages, registry, monitor, pc, locals, result,
                   history, running,
                   outside>>

\* ------------------------------------------- PerformanceMonitor: direct calls
\* The log holds entries of `entries` only.
LogOf(entries) == \A i \in 1..Len(metrics) : metrics[i] \in entries

\* The log can take `metric`: a short log of ThresholdEntries, or, on a
\* monitor without interactions, a long log of LongLogEntries or a log of
\* GroupEntries.
CanRecord(metric) ==
    \/ /\ Len(metrics) < MaxLog
       /\ metric \in ThresholdEntries
       /\ LogOf(ThresholdEntries)
    \/ /\ Len(metrics) < MaxLongLog
       /\ interaction_count = 0
       /\ metric \in LongLogEntries
       /\ LogOf(LongLogEntries)
    \/ /\ Len(metrics) < MaxGroupLog
       /\ interaction_count = 0
       /\ metric \in GroupEntries
       /\ LogOf(GroupEntries)

call_record_metric ==
    /\ Idle
    /\ \E metric \in MetricInputs :
          /\ CanRecord(metric)
          /\ record_metric(metric.component, metric.metric_name, metric.value)
          /\ op' = [name |-> "record_metric", metric |-> metric,
                    pre |-> Snapshot]
    /\ UNCHANGED <<state, stages, registry, counters, pc, locals, result,
                   history, running,
                   outside>>

call_record_interaction ==
    /\ Idle
    /\ interaction_count < MaxCount
    /\ Len(metrics) <= MaxLog
    /\ LogOf(ThresholdEntries)
    /\ \E success \in BOOLEAN :
          /\ record_interaction(success)
          /\ op' = [name |-> "record_interaction", success |-> success,
                    pre |-> Snapshot]
    /\ UNCHANGED <<state, stages, registry, metrics, pc, locals, result,
                   history, running,
                   outside>>

\* reset_session that keeps the two counters.
reset_session_keeps_counters ==
    /\ Idle
    /\ metrics' = <<>>
    /\ op' = [name |-> "reset_session", pre |-> Snapshot]
    /\ UNCHANGED <<state, stages, registry, counters, pc, locals, result,
                   history, running,
                   outside>>

reset_session ==
    /\ Idle
    /\ metrics' = <<>>
    /\ interaction_count' = 0
    /\ error_count' = 0
    /\ op' = [name |-> "reset_session", pre |-> Snapshot]
    /\ UNCHANGED <<state, stages, registry, pc, locals, result, history, running,
                   outside>>

\* The calls that read the monitor.
call_get_metrics_summary ==
    /\ Idle
    /\ op' = [name |-> "get_metrics_summary", pre |-> Snapshot]
    /\ UNCHANGED <<state, stages, registry, monitor, pc, locals, result,
                   history, running,
                   outside>>

call_get_feedback_report ==
    /\ Idle
    /\ op' = [name |-> "get_feedback_report", pre |-> Snapshot]
    /\ UNCHANGED <<state, stages, registry, monitor, pc, locals, result,
                   history, running,
                   outside>>

\* export_metrics that empties the log it has handed out.
export_metrics_draining ==
    /\ Idle
    /\ op' = [name |-> "export_metrics", pre |-> Snapshot]
    /\ metrics' = <<>>
    /\ UNCHANGED <<state, stages, registry, counters, pc, locals, result,
                   history, running,
                   outside>>

export_metrics ==
    /\ Idle
    /\ op' = [name |-> "export_metrics", pre |-> Snapshot]
    /\ UNCHANGED <<state, stages, registry, monitor, pc, locals, result,
                   history, running,
                   outside>>

\* ------------------------------------------------------------- read operations
\* What a call of get_domain_name() or get_supported_intents() can do.
ReadOutcomes == {"return", "raise"}

\* The ways a comprehension over the registry can go that calls `method` on
\* each module: a call that raises ends it.
registry_reads(method) ==
    LET N == Cardinality(RegisteredNames)
        log(order, k, out) ==
            [i \in 1..k |-> <<method, IF i = k THEN out ELSE "return",
                              modules[order[i]]>>]
    IN  {log(order, N, "return") : order \in Orders(RegisteredNames)}
        \cup {log(order, k, "raise") :
                 order \in Orders(RegisteredNames), k \in 1..N}

get_status ==
    /\ Idle
    /\ op' = [name |-> "get_status",
              log |-> <<>>,
              ret |-> [running |-> running,
                       state |-> state,
                       active_module |-> active_module,
                       registered_modules |-> RegisteredNames],
              pre |-> Snapshot]
    /\ UNCHANGED <<state, stages, registry, monitor, pc, locals, result,
                   history, running,
                   outside>>

get_performance_report ==
    /\ Idle
    /\ op' = [name |-> "get_performance_report", log |-> <<>>, pre |-> Snapshot]
    /\ UNCHANGED <<state, stages, registry, monitor, pc, locals, result,
                   history, running,
                   outside>>

list_modules ==
    /\ Idle
    /\ \E log \in registry_reads("get_domain_name") :
          op' = [name |-> "list_modules", log |-> log, pre |-> Snapshot]
    /\ UNCHANGED <<state, stages, registry, monitor, pc, locals, result,
                   history, running,
                   outside>>

get_module_intents ==
    /\ Idle
    /\ \E domain_name \in DomainNames, out \in ReadOutcomes :
          op' = [name |-> "get_module_intents",
                 domain_name |-> domain_name,
                 log |-> IF IsRegistered(domain_name)
                         THEN << <<"get_supported_intents", out,
                                   modules[domain_name]>> >>
                         ELSE <<>>,
                 pre |-> Snapshot]
    /\ UNCHANGED <<state, stages, registry, monitor, pc, locals, result,
                   history, running,
                   outside>>

get_all_supported_intents ==
    /\ Idle
    /\ \E log \in registry_reads("get_supported_intents") :
          op' = [name |-> "get_all_supported_intents", log |-> log,
                 pre |-> Snapshot]
    /\ UNCHANGED <<state, stages, registry, monitor, pc, locals, result,
                   history, running,
                   outside>>

Next ==
    \/ set_activation_engine
    \/ set_stt_processor
    \/ set_intent_recognizer
    \/ set_response_generator
    \/ register_module
    \/ switch_module
    \/ process_audio
    \/ cleanup_all
    \/ start
    \/ stop
    \/ cleanup
    \/ get_status
    \/ get_performance_report
    \/ call_get_feedback_report
    \/ export_metrics
    \/ list_modules
    \/ get_module_intents
    \/ get_all_supported_intents
    \/ Complete

Spec == Init /\ [][Next]_vars

\* ------------------------------------------------------------------ APIGateway
register_route ==
    /\ Idle
    /\ \E endpoint \in Endpoints, handler \in Handlers :
          /\ routes' = [routes EXCEPT ![endpoint] = handler]
          /\ op' = [name |-> "register_route", key |-> endpoint,
                    handler |-> handler]
    /\ UNCHANGED <<state, stages, registry, monitor, pc, locals, result,
                   history, running, external_systems, concurrent>>

register_external_system ==
    /\ Idle
    /\ \E system_name \in SystemNames, handler \in Handlers :
          /\ external_systems' = [external_systems EXCEPT ![system_name] = handler]
          /\ op' = [name |-> "register_external_system", key |-> system_name,
                    handler |-> handler]
    /\ UNCHANGED <<state, stages, registry, monitor, pc, locals, result,
                   history, running, routes, concurrent>>

\* What the call of a registered handler can do: return a result or raise.
HandlerOutcomes ==
    {<<"return", r>> : r \in HandlerResults}
    \cup {<<"raise", message>> : message \in HandlerErrors}

\* ExternalSystemResponse(system_name, status, data)
ExternalSystemResponse(system_name, status, data) ==
    [system_name |-> system_name, status |-> status, data |-> data]

\* The value call_external_system returns.
external_system_response(system_name, outcome) ==
    IF outcome[1] = "missing"
    THEN ExternalSystemResponse(system_name, "error",
             [error |-> "System '" \o system_name \o "' not found"])
    ELSE IF outcome[1] = "return"
    THEN ExternalSystemResponse(system_name, "success", outcome[2])
    ELSE ExternalSystemResponse(system_name, "error", [error |-> outcome[2]])

call_external_system ==
    /\ Idle
    /\ \E system_name \in SystemNames :
       \E outcome \in IF external_systems[system_name] = None
                      THEN {<<"missing">>} ELSE HandlerOutcomes :
          op' = [name |-> "call_external_system",
                 key |-> system_name,
                 handler |-> external_systems[system_name],
                 outcome |-> outcome,
                 ret |-> external_system_response(system_name, outcome)]
    /\ UNCHANGED <<state, stages, registry, monitor, pc, locals, result,
                   history, running, outside>>

\* The value handle_route returns.
route_response(endpoint, outcome) ==
    IF outcome[1] = "missing"
    THEN [error |-> "Route '" \o endpoint \o "' not found"]
    ELSE IF outcome[1] = "return"
    THEN outcome[2]
    ELSE [error |-> outcome[2]]

handle_route ==
    /\ Idle
    /\ \E endpoint \in Endpoints :
       \E outcome \in IF routes[endpoint] = None
                      THEN {<<"missing">>} ELSE HandlerOutcomes :
          op' = [name |-> "handle_route",
                 key |-> endpoint,
                 handler |-> routes[endpoint],
                 outcome |-> outcome,
                 ret |-> route_response(endpoint, outcome)]
    /\ UNCHANGED <<state, stages, registry, monitor, pc, locals, result,
                   history, running, outside>>

\* APIGateway.cleanup
gateway_cleanup ==
    /\ Idle
    /\ routes' = [endpoint \in Endpoints |-> None]
    /\ external_systems' = [system_name \in SystemNames |-> None]
    /\ op' = [name |-> "gateway_cleanup"]
    /\ UNCHANGED <<state, stages, registry, monitor, pc, locals, result,
                   history, running, concurrent>>

\* A gateway on its own: any sequence of its calls.
GatewayNext ==
    \/ register_route
    \/ register_external_system
    \/ call_external_system
    \/ handle_route
    \/ gateway_cleanup
    \/ Complete

GatewaySpec == Init /\ [][GatewayNext]_vars

\* ------------------------------------ ModuleManager: a dispatch in its steps
\* process_with_module run by a thread of its own, one read of the registry
\* or one call on a module per step, while register_module and switch_module
\* are called from other threads.
dispatch_begin ==
    /\ dispatch.pc = "idle"
    /\ dispatch' = [NoDispatch EXCEPT !.pc = "active"]
    /\ UNCHANGED <<state, stages, registry, monitor, pc, locals, result,
                   history, api, gateway, invocations, llm>>

\* get_active_module: `if self.active_module`
dispatch_active ==
    /\ dispatch.pc = "active"
    /\ dispatch' = [dispatch EXCEPT
                      !.pc = IF active_module \in {None, ""}
                             THEN "gate" ELSE "registered"]
    /\ UNCHANGED <<state, stages, registry, monitor, pc, locals, result,
                   history, api, gateway, invocations, llm>>

\* get_active_module: `and self.active_module in self.modules`
dispatch_registered ==
    /\ dispatch.pc = "registered"
    /\ dispatch' = [dispatch EXCEPT
                      !.pc = IF active_module # None /\ IsRegistered(active_module)
                             THEN "lookup" ELSE "gate"]
    /\ UNCHANGED <<state, stages, registry, monitor, pc, locals, result,
                   history, api, gateway, invocations, llm>>

\* get_active_module: `return self.modules[self.active_module]`, bound to the
\* local `module` of process_with_module.
dispatch_lookup ==
    /\ dispatch.pc = "lookup"
    /\ active_module # None
    /\ dispatch' = [dispatch EXCEPT !.module = modules[active_module],
                                    !.pc = "gate"]
    /\ UNCHANGED <<state, stages, registry, monitor, pc, locals, result,
                   history, api, gateway, invocations, llm>>

\* `if module and module.supports_intent(intent_result.intent)`
dispatch_supports_intent ==
    /\ dispatch.pc = "gate"
    /\ IF dispatch.module = None
       THEN dispatch' = [dispatch EXCEPT !.pc = "return"]
       ELSE \E out \in BoolOutcomes :
               dispatch' = [dispatch EXCEPT
                              !.log = Append(@, <<"supports_intent", out,
                                                  dispatch.module>>),
                              !.pc = IF out = "true" THEN "handle" ELSE "return"]
    /\ UNCHANGED <<state, stages, registry, monitor, pc, locals, result,
                   history, api, gateway, invocations, llm>>

\* handle called on whatever module is active when the call is made.
dispatch_handle_active ==
    /\ dispatch.pc = "handle"
    /\ \E out \in ResponseOutcomes :
          dispatch' = [dispatch EXCEPT
                         !.log = Append(@, <<"handle", out, get_active_module>>),
                         !.pc = "return"]
    /\ UNCHANGED <<state, stages, registry, monitor, pc, locals, result,
                   history, api, gateway, invocations, llm>>

\* `return module.handle(intent_result)`
dispatch_handle ==
    /\ dispatch.pc = "handle"
    /\ \E out \in ResponseOutcomes :
          dispatch' = [dispatch EXCEPT
                         !.log = Append(@, <<"handle", out, dispatch.module>>),
                         !.pc = "return"]
    /\ UNCHANGED <<state, stages, registry, monitor, pc, locals, result,
                   history, api, gateway, invocations, llm>>

\* The dispatch has returned or raised.
dispatch_return ==
    /\ dispatch.pc = "return"
    /\ dispatch' = NoDispatch
    /\ UNCHANGED <<state, stages, registry, monitor, pc, locals, result,
                   history, api, gateway, invocations, llm>>

\* A registry used from two threads: one registers and switches modules, the
\* other dispatches.
DispatchNext ==
    \/ register_module
    \/ switch_module
    \/ Complete
    \/ dispatch_begin
    \/ dispatch_active
    \/ dispatch_registered
    \/ dispatch_lookup
    \/ dispatch_supports_intent
    \/ dispatch_handle
    \/ dispatch_return

DispatchSpec == Init /\ [][DispatchNext]_vars

\* -------------------------- PerformanceMonitor: process_audio runs in parallel
\* Each invocation is what process_audio does to the monitor: record_metric
\* for stt, record_metric for the intent, then one record_interaction, which
\* comes earlier when a stage is missing or raises.
invocation_begin ==
    \E t \in Invocations :
        /\ invocations[t].pc = "idle"
        /\ invocations' = [invocations EXCEPT ![t].pc = "stt"]
        /\ UNCHANGED <<state, stages, registry, monitor, pc, locals, result,
                       history, api, gateway, dispatch, llm>>

\* record_metric: self.metrics.append(metric), one step of the interpreter.
invocation_record_metric ==
    \E t \in Invocations, value \in Confidences :
        LET component == IF invocations[t].pc = "stt"
                         THEN "stt" ELSE "intent_recognizer" IN
        /\ invocations[t].pc \in {"stt", "intent"}
        /\ record_metric(component, "confidence", value)
        /\ invocations' = [invocations EXCEPT
                             ![t].recorded = Append(@, [component |-> component,
                                                        metric_name |-> "confidence",
                                                        value |-> value]),
                             ![t].pc = IF invocations[t].pc = "stt"
                                       THEN "intent" ELSE "respond"]
        /\ UNCHANGED <<state, stages, registry, counters, pc, locals, result,
                       history, api, gateway, dispatch, llm>>

\* The call of record_interaction: with True after both metrics only.
invocation_record_interaction ==
    \E t \in Invocations, success \in BOOLEAN :
        /\ invocations[t].pc \in {"stt", "intent", "respond"}
        /\ success => invocations[t].pc = "respond"
        /\ invocations' = [invocations EXCEPT ![t].success = success,
                                              ![t].pc = "read_interactions"]
        /\ UNCHANGED <<state, stages, registry, monitor, pc, locals, result,
                       history, api, gateway, dispatch, llm>>

\* self.interaction_count += 1: the read of the attribute
invocation_read_interactions ==
    \E t \in Invocations :
        /\ invocations[t].pc = "read_interactions"
        /\ invocations' = [invocations EXCEPT ![t].read = interaction_count,
                                              ![t].pc = "write_interactions"]
        /\ UNCHANGED <<state, stages, registry, monitor, pc, locals, result,
                       history, api, gateway, dispatch, llm>>

\* self.interaction_count += 1: the store of the sum
invocation_write_interactions ==
    \E t \in Invocations :
        /\ invocations[t].pc = "write_interactions"
        /\ interaction_count' = invocations[t].read + 1
        /\ invocations' = [invocations EXCEPT
                             ![t].pc = IF invocations[t].success
                                       THEN "done" ELSE "read_errors"]
        /\ UNCHANGED <<state, stages, registry, metrics, error_count, pc,
                       locals, result, history, api, gateway, dispatch, llm>>

\* self.error_count += 1: the read of the attribute
invocation_read_errors ==
    \E t \in Invocations :
        /\ invocations[t].pc = "read_errors"
        /\ invocations' = [invocations EXCEPT ![t].read = error_count,
                                              ![t].pc = "write_errors"]
        /\ UNCHANGED <<state, stages, registry, monitor, pc, locals, result,
                       history, api, gateway, dispatch, llm>>

\* self.error_count += 1: the store of the sum
invocation_write_errors ==
    \E t \in Invocations :
        /\ invocations[t].pc = "write_errors"
        /\ error_count' = invocations[t].read + 1
        /\ invocations' = [invocations EXCEPT ![t].pc = "done"]
        /\ UNCHANGED <<state, stages, registry, metrics, interaction_count, pc,
                       locals, result, history, api, gateway, dispatch, llm>>

\* Two invocations against one monitor, each run once.
ParallelNext ==
    \/ invocation_begin
    \/ invocation_record_metric
    \/ invocation_record_interaction
    \/ invocation_read_interactions
    \/ invocation_write_interactions
    \/ invocation_read_errors
    \/ invocation_write_errors

ParallelSpec == Init /\ [][ParallelNext]_vars

\* ---------------------------------------------------- llm_server: /llm_chat
\* One step per statement of llm_chat; each request is served by a thread of
\* its own.
RequestAt(r, at) == llm.requests[r].pc = at

\* A request arrives.
llm_chat ==
    \E r \in Requests :
        /\ RequestAt(r, "idle")
        /\ llm' = [llm EXCEPT !.requests[r] = [NoRequest EXCEPT !.pc = "initialized"]]
        /\ UNCHANGED <<state, stages, registry, monitor, pc, locals, result,
                       history, api, gateway, dispatch, invocations>>

\* `if not system_initialized:`
llm_check_initialized ==
    \E r \in Requests :
        /\ RequestAt(r, "initialized")
        /\ llm' = [llm EXCEPT !.requests[r].pc = IF llm.system_initialized
                                                 THEN "route" ELSE "lock"]
        /\ UNCHANGED <<state, stages, registry, monitor, pc, locals, result,
                       history, api, gateway, dispatch, invocations>>

\* `if initialization_lock: return ..., 503`
llm_check_lock ==
    \E r \in Requests :
        /\ RequestAt(r, "lock")
        /\ llm' = IF llm.initialization_lock
                  THEN [llm EXCEPT !.requests[r].pc = "answered",
                                   !.requests[r].status = 503]
                  ELSE [llm EXCEPT !.requests[r].pc = "set_lock"]
        /\ UNCHANGED <<state, stages, registry, monitor, pc, locals, result,
                       history, api, gateway, dispatch, invocations>>

\* `initialization_lock = True`
llm_set_lock ==
    \E r \in Requests :
        /\ RequestAt(r, "set_lock")
        /\ llm' = [llm EXCEPT !.initialization_lock = TRUE,
                              !.requests[r].pc = "try"]
        /\ UNCHANGED <<state, stages, registry, monitor, pc, locals, result,
                       history, api, gateway, dispatch, invocations>>

\* create_system() is called; `late` keeps what system_initialized is then.
llm_create_system_begin ==
    \E r \in Requests :
        /\ RequestAt(r, "try")
        /\ llm' = [llm EXCEPT !.requests[r].pc = "create_system",
                              !.requests[r].late = llm.system_initialized]
        /\ UNCHANGED <<state, stages, registry, monitor, pc, locals, result,
                       history, api, gateway, dispatch, invocations>>

\* create_system() returns, and `api_gateway = ...` is assigned, or raises.
llm_create_system_end ==
    \E r \in Requests, out \in CleanupOutcomes :
        /\ RequestAt(r, "create_system")
        /\ llm' = IF out = "return"
                  THEN [llm EXCEPT !.api_gateway = "gateway",
                                   !.requests[r].pc = "set_initialized"]
                  ELSE [llm EXCEPT !.requests[r].pc = "except"]
        /\ UNCHANGED <<state, stages, registry, monitor, pc, locals, result,
                       history, api, gateway, dispatch, invocations>>

\* `system_initialized = True`
llm_set_initialized ==
    \E r \in Requests :
        /\ RequestAt(r, "set_initialized")
        /\ llm' = [llm EXCEPT !.system_initialized = TRUE,
                              !.requests[r].pc = "finally"]
        /\ UNCHANGED <<state, stages, registry, monitor, pc, locals, result,
                       history, api, gateway, dispatch, invocations>>

\* `except Exception: initialization_lock = False; return ..., 500`
llm_except ==
    \E r \in Requests :
        /\ RequestAt(r, "except")
        /\ llm' = [llm EXCEPT !.initialization_lock = FALSE,
                              !.requests[r].status = 500,
                              !.requests[r].pc = "finally"]
        /\ UNCHANGED <<state, stages, registry, monitor, pc, locals, result,
                       history, api, gateway, dispatch, invocations>>

\* `finally: initialization_lock = False`, then the pending return if any.
llm_finally ==
    \E r \in Requests :
        /\ RequestAt(r, "finally")
        /\ llm' = [llm EXCEPT !.initialization_lock = FALSE,
                              !.requests[r].pc = IF llm.requests[r].status = 500
                                                 THEN "answered" ELSE "route"]
        /\ UNCHANGED <<state, stages, registry, monitor, pc, locals, result,
                       history, api, gateway, dispatch, invocations>>

\* The rest of llm_chat: 400 without text, 500 without gateway or when the
\* route raises, else what the route answered.
llm_route ==
    \E r \in Requests :
        /\ RequestAt(r, "route")
        /\ \E status \in IF llm.api_gateway = None THEN {400, 500}
                                                   ELSE {200, 400, 500} :
              llm' = [llm EXCEPT !.requests[r].status = status,
                                 !.requests[r].pc = "answered"]
        /\ UNCHANGED <<state, stages, registry, monitor, pc, locals, result,
                       history, api, gateway, dispatch, invocations>>

\* The client has the answer; the thread is free for the next request.
llm_answer ==
    \E r \in Requests :
        /\ RequestAt(r, "answered")
        /\ llm' = [llm EXCEPT !.requests[r].pc = "idle"]
        /\ UNCHANGED <<state, stages, registry, monitor, pc, locals, result,
                       history, api, gateway, dispatch, invocations>>

LlmNext ==
    \/ llm_chat
    \/ llm_check_initialized
    \/ llm_check_lock
    \/ llm_set_lock
    \/ llm_create_system_begin
    \/ llm_create_system_end
    \/ llm_set_initialized
    \/ llm_except
    \/ llm_finally
    \/ llm_route
    \/ llm_answer

LlmSpec == Init /\ [][LlmNext]_vars

\* A core on which earlier set_* calls installed any stages; then only set_*
\* calls are made.
ConfigInit ==
    /\ state = "IDLE"
    /\ activation_engine \in {None} \cup StageImpls \cup EarlierImpls
    /\ stt_processor \in {None} \cup StageImpls \cup EarlierImpls
    /\ intent_recognizer \in {None} \cup StageImpls \cup EarlierImpls
    /\ response_generator \in {None} \cup StageImpls \cup EarlierImpls
    /\ modules = [n \in DomainNames |-> None]
    /\ active_module = None
    /\ metrics = <<>>
    /\ interaction_count = 0
    /\ error_count = 0
    /\ pc = "idle"
    /\ transcribed = NoTranscribed
    /\ intent_result = NoIntent
    /\ response = None
    /\ result = None
    /\ calls = <<>>
    /\ visited = <<>>
    /\ entry = NoEntry
    /\ running = FALSE
    /\ op = NoOp
    /\ routes = [endpoint \in Endpoints |-> None]
    /\ external_systems = [system_name \in SystemNames |-> None]
    /\ dispatch = NoDispatch
    /\ invocations = [t \in Invocations |-> NoInvocation]
    /\ llm = [system_initialized |-> FALSE,
              initialization_lock |-> FALSE,
              api_gateway |-> None,
              requests |-> [r \in Requests |-> NoRequest]]

ConfigNext ==
    \/ set_activation_engine
    \/ set_stt_processor
    \/ set_intent_recognizer
    \/ set_response_generator
    \/ Complete

ConfigSpec == ConfigInit /\ [][ConfigNext]_vars

\* A monitor on its own: any sequence of its calls.
MonitorNext ==
    \/ call_record_metric
    \/ call_record_interaction
    \/ reset_session
    \/ call_get_metrics_summary
    \/ call_get_feedback_report
    \/ export_metrics
    \/ Complete

MonitorSpec == Init /\ [][MonitorNext]_vars

\* ==================================================================
\* Properties of process_audio
\* ==================================================================
Range(seq) == {seq[i] : i \in 1..Len(seq)}

\* The running invocation called `method`.
Called(method) == \E i \in 1..Len(calls) : calls[i][1] = method

\* The running invocation called `method` and the call ended as `out`.
CallOutcome(method, out) ==
    \E i \in 1..Len(calls) : calls[i][1] = method /\ calls[i][2] = out

\* A stage raised during the running invocation.
Raised == \E i \in 1..Len(calls) : calls[i][2] = "raise"

\* The activation stage returned false.
NonDetection == CallOutcome("detect", "false")

\* There is no activation stage, or detect returned true.
PassedActivation == ~Called("detect") \/ CallOutcome("detect", "true")

\* What the running invocation added to the monitor so far.
NewInteractions == interaction_count - entry.interaction_count
NewErrors == error_count - entry.error_count
NewMetrics == SubSeq(metrics, Len(entry.metrics) + 1, Len(metrics))

SttMetric(value) ==
    [component |-> "stt", metric_name |-> "confidence", value |-> value]
IntentMetric(value) ==
    [component |-> "intent_recognizer", metric_name |-> "confidence", value |-> value]

\* C1: when process_audio has returned, whatever the outcome and whatever
\* stages are configured, the state is IDLE.
C1_IdleAfterReturn ==
    pc = "returned" => state = "IDLE"

C1_Witness ==
    /\ pc = "returned"
    /\ CallOutcome("recognize", "raise")
    /\ state = "IDLE"

\* C2: a stage that raises does not stop the handler: after the raise control
\* is in the handler, and on return there is no response, the state was ERROR
\* on the way, exactly one failed interaction was recorded, the state is IDLE.
C2_StageFailureContained ==
    Raised =>
        /\ pc \in {"except", "finally", "returned"}
        /\ pc = "returned" =>
              /\ result = None
              /\ "ERROR" \in Range(visited)
              /\ NewInteractions = 1
              /\ NewErrors = 1
              /\ state = "IDLE"

C2_Witness ==
    /\ pc = "returned"
    /\ CallOutcome("generate", "raise")
    /\ NewErrors = 1

\* C3: once detect has returned false, no other stage is called, neither
\* counter changes, and the invocation returns no response.
C3_NonDetectionIsSilent ==
    NonDetection =>
        /\ Len(calls) = 1
        /\ pc \in {"finally", "returned"}
        /\ NewInteractions = 0
        /\ NewErrors = 0
        /\ NewMetrics = <<>>
        /\ result = None

C3_Witness ==
    /\ pc = "returned"
    /\ NonDetection
    /\ stt_processor # None
    /\ interaction_count = 1

\* C4 as stated: with no transcription stage every invocation returns no
\* response, ends in IDLE and adds one to both counters.
C4_Original ==
    (pc = "returned" /\ stt_processor = None) =>
        /\ result = None
        /\ state = "IDLE"
        /\ NewInteractions = 1
        /\ NewErrors = 1

\* C4 amended: with no transcription stage every invocation returns no
\* response and ends in IDLE; it adds one to both counters unless detect
\* returned false, and then it changes neither.
C4_MissingSttCounted ==
    (pc = "returned" /\ stt_processor = None) =>
        /\ result = None
        /\ state = "IDLE"
        /\ ~Called("transcribe")
        /\ IF NonDetection
           THEN NewInteractions = 0 /\ NewErrors = 0
           ELSE NewInteractions = 1 /\ NewErrors = 1

C4_Witness ==
    /\ pc = "returned"
    /\ stt_processor = None
    /\ CallOutcome("detect", "true")
    /\ NewErrors = 1

\* What C5 says of every invocation that passes activation with a
\* transcription stage and no intent-recognition stage, apart from the metric.
C5_Rest ==
    /\ Called("transcribe")
    /\ "ERROR" \in Range(visited)
    /\ NewInteractions = 1
    /\ NewErrors = 1
    /\ result = None
    /\ \A i \in 1..Len(calls) : calls[i][1] \in {"detect", "transcribe"}

\* C5 as stated: such an invocation appends one stt.confidence metric (and
\* nothing else).
C5_Original ==
    (/\ pc = "returned"
     /\ stt_processor # None
     /\ intent_recognizer = None
     /\ PassedActivation) =>
        /\ C5_Rest
        /\ \E value \in Confidences : NewMetrics = <<SttMetric(value)>>

\* C5 amended: it appends the one stt.confidence metric when transcribe
\* returns, and no metric when transcribe raises.
C5_MissingRecognizer ==
    (/\ pc = "returned"
     /\ stt_processor # None
     /\ intent_recognizer = None
     /\ PassedActivation) =>
        /\ C5_Rest
        /\ IF CallOutcome("transcribe", "return")
           THEN NewMetrics = <<SttMetric(transcribed.confidence)>>
           ELSE CallOutcome("transcribe", "raise") /\ NewMetrics = <<>>

C5_Witness ==
    /\ pc = "returned"
    /\ stt_processor # None
    /\ intent_recognizer = None
    /\ CallOutcome("transcribe", "return")
    /\ Len(NewMetrics) = 1
    /\ response_generator # None
    /\ get_active_module # None

\* The active module accepted the intent and its handle returned a response.
ModuleResponded ==
    /\ get_active_module # None
    /\ <<"supports_intent", "true", get_active_module>> \in Range(calls)
    /\ <<"handle", "response", get_active_module>> \in Range(calls)

\* C6: when the active module accepts the intent and its handle returns a
\* response, that response is returned and generate is not called, with a
\* fallback generator configured or not.
C6_ModuleBeforeFallback ==
    ModuleResponded =>
        /\ ~Called("generate")
        /\ pc \in {"fallback", "record", "finally", "returned"}
        /\ pc = "returned" => result = get_active_module

C6_Witness ==
    /\ pc = "returned"
    /\ ModuleResponded
    /\ response_generator # None
    /\ result = get_active_module

\* The invocation reached dispatch, and there is no active module or the
\* active module declined the intent; a fallback generator is configured.
FallbackCase ==
    /\ pc = "returned"
    /\ "RESPONDING" \in Range(visited)
    /\ get_active_module = None \/ CallOutcome("supports_intent", "false")
    /\ response_generator # None

\* C7 as stated: in that case the fallback's response is returned and a
\* successful interaction is recorded.
C7_Original ==
    FallbackCase =>
        /\ result = Generic
        /\ NewInteractions = 1
        /\ NewErrors = 0

\* C7 amended: in that case generate is called; when it returns a response
\* that response is returned and a successful interaction recorded; when it
\* returns nothing or raises, no response is returned and a failed
\* interaction is recorded.
C7_FallbackUsed ==
    FallbackCase =>
        /\ Called("generate")
        /\ ~Called("handle")
        /\ NewInteractions = 1
        /\ IF CallOutcome("generate", "response")
           THEN result = Generic /\ NewErrors = 0
           ELSE result = None /\ NewErrors = 1

C7_Witness ==
    /\ FallbackCase
    /\ CallOutcome("supports_intent", "false")
    /\ result = Generic
    /\ NewErrors = 0

\* C8: an invocation that reached the response step records one interaction;
\* when the module or the fallback produced a response it returns that
\* response and records no error, otherwise it returns no response and
\* records one error.
C8_ResponseStepAccounting ==
    (pc = "returned" /\ "RESPONDING" \in Range(visited)) =>
        /\ NewInteractions = 1
        /\ IF CallOutcome("handle", "response")
           THEN result = get_active_module /\ NewErrors = 0
           ELSE IF CallOutcome("generate", "response")
                THEN result = Generic /\ NewErrors = 0
                ELSE result = None /\ NewErrors = 1

C8_Witness ==
    /\ pc = "returned"
    /\ "RESPONDING" \in Range(visited)
    /\ CallOutcome("handle", "none")
    /\ CallOutcome("generate", "none")
    /\ NewErrors = 1

\* C9: an invocation that returns no response, and in which detect did not
\* return false, has added one to the error counter.
C9_OnlyNonDetectionUncounted ==
    (pc = "returned" /\ result = None /\ ~NonDetection) => NewErrors = 1

C9_Witness ==
    /\ pc = "returned"
    /\ result = None
    /\ ~Called("detect")
    /\ CallOutcome("supports_intent", "false")
    /\ response_generator = None
    /\ NewErrors = 1

\* The order of the states of one invocation.
StateOrder == <<"IDLE", "LISTENING", "PROCESSING", "RESPONDING">>

\* Position of the first call of `method` in the running invocation (0: none).
FirstCall(method) ==
    IF Called(method)
    THEN CHOOSE i \in 1..Len(calls) :
            /\ calls[i][1] = method
            /\ \A j \in 1..(i - 1) : calls[j][1] # method
    ELSE 0

\* Every step changes the state as the order allows.
C10_Steps ==
    [][state' # state =>
         /\ state = "IDLE" => state' = "LISTENING"
         /\ state' = "LISTENING" => state = "IDLE"
         /\ state' = "PROCESSING" => state = "LISTENING"
         /\ state' = "RESPONDING" => state = "PROCESSING"
         /\ state = "ERROR" => state' = "IDLE"]_vars

\* The states of an invocation so far: a prefix of the order, then nothing,
\* IDLE, ERROR, or ERROR and IDLE; stages are called in pipeline order; the
\* state is not ERROR once the invocation has returned.
C10_Inv ==
    /\ pc \in {"idle", "returned"} => state = "IDLE"
    /\ pc # "idle" =>
          \E k \in 2..Len(StateOrder) :
             \E tail \in {<<>>, <<"IDLE">>, <<"ERROR">>, <<"ERROR", "IDLE">>} :
                visited = SubSeq(StateOrder, 1, k) \o tail
    /\ Called("recognize") =>
          /\ FirstCall("transcribe") # 0
          /\ FirstCall("transcribe") < FirstCall("recognize")
          /\ "PROCESSING" \in Range(visited)
    /\ \A m \in {"supports_intent", "handle", "generate"} :
          Called(m) =>
             /\ CallOutcome("recognize", "return")
             /\ FirstCall("recognize") < FirstCall(m)
             /\ "RESPONDING" \in Range(visited)

\* C10: within one invocation the state follows IDLE, LISTENING, PROCESSING,
\* RESPONDING, then IDLE or ERROR and IDLE; the stages are called in that
\* order; every ERROR is followed by IDLE before the invocation returns.
C10_StateOrder == C10_Steps /\ []C10_Inv

C10_Witness ==
    /\ pc = "returned"
    /\ visited = <<"IDLE", "LISTENING", "PROCESSING", "RESPONDING", "ERROR", "IDLE">>
    /\ CallOutcome("handle", "raise")

\* ==================================================================
\* Properties of the configuration and lifecycle calls
\* ==================================================================
SetOps ==
    [set_activation_engine |-> "activation_engine",
     set_stt_processor |-> "stt_processor",
     set_intent_recognizer |-> "intent_recognizer",
     set_response_generator |-> "response_generator"]

\* How the one initialize() call of the call that just ran ended.
InitOutcome == op.log[1][2]

\* C11: each set_* call calls initialize() once on the stage it is handed;
\* when that returns true the stage is installed in the call's role and the
\* call returns true; when it returns false or raises the call returns false
\* and the role keeps what it held; the other roles are unchanged either way.
C11_SetStageFailsClosed ==
    op.name \in DOMAIN SetOps =>
        /\ op.role = SetOps[op.name]
        /\ op.log = << <<"initialize", InitOutcome, op.stage>> >>
        /\ IF InitOutcome = "true"
           THEN /\ op.ret = TRUE
                /\ StageSlots = [op.pre.stages EXCEPT ![op.role] = op.stage]
           ELSE /\ op.ret = FALSE
                /\ StageSlots = op.pre.stages

C11_Witness ==
    /\ op.name = "set_stt_processor"
    /\ InitOutcome = "raise"
    /\ op.stage = "mock"
    /\ op.ret = FALSE
    /\ stt_processor = "real"
    /\ intent_recognizer = None

\* C12: register_module calls initialize() once on the module; when that
\* returns true the registry maps the name to the module, every other entry
\* as before, and the call returns true; when it returns false or raises the
\* call returns false and the registry and the active name are unchanged.
C12_RegisterModule ==
    op.name = "register_module" =>
        /\ op.log = << <<"initialize", InitOutcome, op.module>> >>
        /\ IF InitOutcome = "true"
           THEN /\ op.ret = TRUE
                /\ modules = [op.pre.modules EXCEPT ![op.domain_name] = op.module]
           ELSE /\ op.ret = FALSE
                /\ modules = op.pre.modules
                /\ active_module = op.pre.active_module

C12_Witness ==
    /\ op.name = "register_module"
    /\ InitOutcome = "true"
    /\ op.domain_name = "hotel"
    /\ op.pre.modules["hotel"] = "m1"
    /\ op.pre.modules[""] = "m1"
    /\ modules["hotel"] = "m2"
    /\ modules[""] = "m1"

\* C13: switch_module(name) with name registered makes name the active name
\* and returns true; with name not registered it returns false and the active
\* name and the registry are as before.
C13_SwitchModule ==
    op.name = "switch_module" =>
        IF op.pre.modules[op.domain_name] # None
        THEN /\ op.ret = TRUE
             /\ active_module = op.domain_name
        ELSE /\ op.ret = FALSE
             /\ active_module = op.pre.active_module
             /\ modules = op.pre.modules

C13_Witness ==
    /\ op.name = "switch_module"
    /\ op.domain_name = ""
    /\ op.ret = FALSE
    /\ op.pre.active_module = "hotel"
    /\ active_module = "hotel"

\* C14: switch_module calls no initialize() and no cleanup(), and changes
\* nothing but the active name.
C14_SwitchOnlyReroutes ==
    op.name = "switch_module" =>
        /\ op.log = <<>>
        /\ modules = op.pre.modules
        /\ StageSlots = op.pre.stages
        /\ state = op.pre.state
        /\ running = op.pre.running
        /\ metrics = op.pre.metrics
        /\ interaction_count = op.pre.interaction_count
        /\ error_count = op.pre.error_count

C14_Witness ==
    /\ op.name = "switch_module"
    /\ op.ret = TRUE
    /\ op.pre.active_module = "hotel"
    /\ active_module = ""
    /\ modules["hotel"] = "m1"
    /\ modules[""] = "m2"

\* The calls the running invocation made on domain modules.
DispatchCalls ==
    {i \in 1..Len(calls) : calls[i][1] \in {"supports_intent", "handle"}}

CleanupCalls(module) ==
    Cardinality({i \in 1..Len(op.log) :
                    op.log[i][1] = "cleanup" /\ op.log[i][3] = module})

\* The names under which `module` was registered before the call just made.
EntriesOf(module) == {n \in DomainNames : op.pre.modules[n] = module}

RegistryEmpty ==
    /\ \A n \in DomainNames : modules[n] = None
    /\ active_module = None

\* C16: cleanup_all calls cleanup() once for every entry of the registry and
\* nothing else, so a module registered under k names is called k times; a
\* raising cleanup() does not keep the later entries from theirs, and
\* afterwards the registry is empty and no module is active.
C16_CleanupAll ==
    op.name = "cleanup_all" =>
        /\ \A i \in 1..Len(op.log) : op.log[i][1] = "cleanup"
        /\ \A module \in ModuleObjects :
              CleanupCalls(module) = Cardinality(EntriesOf(module))
        /\ RegistryEmpty

\* The statement with one cleanup() per registered module object.
C16_Original ==
    op.name = "cleanup_all" =>
        /\ \A i \in 1..Len(op.log) : op.log[i][1] = "cleanup"
        /\ \A module \in ModuleObjects :
              CleanupCalls(module) = IF EntriesOf(module) = {} THEN 0 ELSE 1
        /\ RegistryEmpty

C16_Witness ==
    /\ op.name = "cleanup_all"
    /\ op.pre.active_module = "hotel"
    /\ op.pre.modules["hotel"] = "m1"
    /\ op.pre.modules[""] = "m1"
    /\ op.log = << <<"cleanup", "raise", "m1">>, <<"cleanup", "return", "m1">> >>
    /\ RegistryEmpty

\* C17: a cleanup_all that follows another cleanup_all, or that finds the
\* registry empty, calls no cleanup(), and the registry is empty with no
\* active module after each of the calls.
C17_CleanupAllIdempotent ==
    op.name = "cleanup_all" =>
        /\ RegistryEmpty
        /\ (op.after = "cleanup_all" \/ \A n \in DomainNames : op.pre.modules[n] = None)
              => op.log = <<>>

C17_Witness ==
    /\ op.name = "cleanup_all"
    /\ op.after = "cleanup_all"
    /\ op.log = <<>>
    /\ op.pre.active_module = None
    /\ RegistryEmpty

\* The roles that held a stage before the call just made.
RolesBefore == {role \in DOMAIN op.pre.stages : op.pre.stages[role] # None}

\* C18: cleanup() calls cleanup() on every configured stage and on every
\* entry of the registry, whichever of these calls raise, and ends with the
\* registry empty, the running flag cleared and the state IDLE.
C18_CleanupTolerant ==
    op.name = "cleanup" =>
        /\ \A role \in RolesBefore :
              \E i \in 1..Len(op.log) :
                  op.log[i][1] = "cleanup" /\ op.log[i][3] = role
        /\ \A module \in ModuleObjects :
              CleanupCalls(module) = Cardinality(EntriesOf(module))
        /\ RegistryEmpty
        /\ running = FALSE
        /\ state = "IDLE"

\* ------------------------------------------------ Properties of the summary
\* Two quotients stand for the same number.
SameNumber(p, q) == p[1] * q[2] = q[1] * p[2]

\* The error rate a reader of the summary gets who takes a missing
\* error_rate as 0, as `summary.get("error_rate", 0)` does.
ReadErrorRate ==
    IF "error_rate" \in DOMAIN get_metrics_summary
    THEN get_metrics_summary.error_rate
    ELSE Zero

\* The interaction and error counts the summary carries, under either name.
ReportedInteractions ==
    IF "total_interactions" \in DOMAIN get_metrics_summary
    THEN get_metrics_summary.total_interactions
    ELSE get_metrics_summary.interaction_count

ReportedErrors ==
    IF "total_errors" \in DOMAIN get_metrics_summary
    THEN get_metrics_summary.total_errors
    ELSE get_metrics_summary.error_count

\* C19: in every state of the monitor the error rate read off the summary is
\* error_count / interaction_count, and 0 when interaction_count is 0.
C19_ErrorRate ==
    SameNumber(ReadErrorRate,
               IF interaction_count > 0
               THEN Quotient(error_count, interaction_count)
               ELSE Zero)

\* C20: with an empty metric log the summary carries zero interactions, zero
\* errors and an error_rate that is 0.
C20_EmptyLogSummary ==
    metrics = <<>> =>
        /\ ReportedInteractions = 0
        /\ ReportedErrors = 0
        /\ "error_rate" \in DOMAIN get_metrics_summary
        /\ SameNumber(ReadErrorRate, Zero)

\* ----------------------------------------- Properties of the feedback report
Recommendations == Range(get_feedback_report.recommendations)

\* The values recorded for the two confidences the report reads.
IntentConfidences == MetricValues("intent_recognizer.confidence")

SttConfidences == MetricValues("stt.confidence")

\* error_count / interaction_count > 0.1
ErrorRateHigh == interaction_count > 0 /\ 10 * error_count > interaction_count

\* There is an intent_recognizer.confidence metric and their average is < 0.7.
IntentAverageLow ==
    IntentConfidences # <<>> /\ Sum(IntentConfidences) < 7 * Len(IntentConfidences)

\* There is an stt.confidence metric and their average is < 0.8.
SttAverageLow ==
    SttConfidences # <<>> /\ Sum(SttConfidences) < 8 * Len(SttConfidences)

\* C21: whenever error_count / interaction_count is above 0.1 the report
\* holds the high-error-rate recommendation, with metrics recorded or not.
C21_HighErrorRateReported ==
    ErrorRateHigh => HighErrorRate \in Recommendations

C23_GoodIffNothingTrips ==
    /\ get_feedback_report.recommendations # <<>>
    /\ get_feedback_report.recommendations = <<PerformanceGood>>
          <=> ~(ErrorRateHigh \/ IntentAverageLow \/ SttAverageLow)
    /\ PerformanceGood \in Recommendations => Recommendations = {PerformanceGood}

\* The values recorded under the pair (component, metric_name), in the order
\* of the log.
PairValues(pair) ==
    LET matching == SelectSeq(metrics, LAMBDA metric : MetricKeyPair(metric) = pair)
    IN  [i \in 1..Len(matching) |-> matching[i].value]

\* The pairs (component, metric_name) that occur in the log.
RecordedPairs == {MetricKeyPair(metrics[i]) : i \in 1..Len(metrics)}

\* C24: for every pair (component, metric_name) in the log the summary has a
\* group with the number of its entries as count, their sum as total,
\* total / count as average and their least and greatest value as min and
\* max; entries under another pair do not enter it.
C24_GroupStatistics ==
    metrics # <<>> =>
        \A pair \in RecordedPairs :
            LET key == pair[1] \o "." \o pair[2]
                values == PairValues(pair)
            IN  /\ key \in DOMAIN get_metrics_summary.statistics
                /\ get_metrics_summary.statistics[key] =
                      [count |-> Len(values),
                       average |-> Quotient(Sum(values), Len(values)),
                       min |-> Min(values),
                       max |-> Max(values),
                       total |-> Sum(values)]

\* The entries the summary gives as recent; a summary without the field
\* gives none.
RecentMetrics == SummaryGet(get_metrics_summary, "recent_metrics", <<>>)

C26_RecordInteraction ==
    /\ 0 <= error_count
    /\ error_count <= interaction_count
    /\ op.name = "record_interaction" =>
          /\ interaction_count = op.pre.interaction_count + 1
          /\ error_count = op.pre.error_count + (IF op.success THEN 0 ELSE 1)
          /\ metrics = op.pre.metrics

C26_Witness ==
    /\ op.name = "record_interaction"
    /\ op.success = FALSE
    /\ op.pre.interaction_count = 2
    /\ op.pre.error_count = 2
    /\ metrics # <<>>
    /\ error_count = 3
    /\ interaction_count = 3

\* `short` is a prefix of `long`.
IsPrefix(short, long) ==
    Len(short) <= Len(long) /\ SubSeq(long, 1, Len(short)) = short

\* The step is a call of `name`.
CallOf(name) == op = NoOp /\ op'.name = name

\* C27: every step that is not a reset_session keeps the log as a prefix of
\* the log after it, and a record_metric call appends its one entry at the
\* end, whatever its value.
C27_AppendOnly ==
    [][CallOf("reset_session")
       \/ /\ IsPrefix(metrics, metrics')
          /\ CallOf("record_metric") => metrics' = Append(metrics, op'.metric)]_vars

C27_Witness ==
    /\ op.name = "record_metric"
    /\ op.metric.value = -1
    /\ op.pre.metrics # <<>>
    /\ metrics = Append(op.pre.metrics, op.metric)

\* What get_metrics_summary and get_feedback_report give on a monitor just
\* created.
FreshSummary ==
    [message |-> "No metrics recorded", interaction_count |-> 0, error_count |-> 0]

FreshReport ==
    [total_interactions |-> None,
     error_rate |-> None,
     performance_data |-> FreshSummary,
     recommendations |-> <<PerformanceGood>>]

\* C28: after reset_session the log is empty and both counters are 0, and
\* the summary and the report are those of a monitor just created, whatever
\* was recorded before.
C28_ResetIsFresh ==
    op.name = "reset_session" =>
        /\ metrics = <<>>
        /\ interaction_count = 0
        /\ error_count = 0
        /\ get_metrics_summary = FreshSummary
        /\ get_feedback_report = FreshReport

C28_Witness ==
    /\ op.name = "reset_session"
    /\ Len(op.pre.metrics) = 2
    /\ op.pre.error_count = 1
    /\ op.pre.interaction_count = 3
    /\ get_feedback_report = FreshReport

\* ----------------------------------------- Properties of the read operations
ReadOps ==
    {"get_status", "get_performance_report", "get_feedback_report",
     "export_metrics", "list_modules", "get_module_intents",
     "get_all_supported_intents"}

\* C29: a read operation leaves the state, the running flag, the stages, the
\* registry and the active name, the log and both counters as they were.
C29_ReadOnly ==
    op.name \in ReadOps => Snapshot = op.pre

C29_Witness ==
    /\ op.name = "export_metrics"
    /\ running = TRUE
    /\ stt_processor # None
    /\ active_module = "hotel"
    /\ modules["hotel"] = "m1"
    /\ Len(metrics) = 2
    /\ error_count = 1
    /\ Snapshot = op.pre

\* ------------------------------------------- Properties of start and stop
\* C30: start sets the running flag and stop clears it, and neither changes
\* the state, the stages, the registry or the monitor; no step of
\* process_audio changes the flag, and process_audio can be started in every
\* idle state, with the flag set or not.
C30_RunningIsOnlyAFlag ==
    [][/\ CallOf("start") =>
             running' = TRUE /\ UNCHANGED <<state, stages, registry, monitor>>
       /\ CallOf("stop") =>
             running' = FALSE /\ UNCHANGED <<state, stages, registry, monitor>>
       /\ (pc # "idle" \/ pc' # "idle") => running' = running
       /\ (Idle /\ interaction_count < MaxInteractions) => ENABLED Listen]_vars

C30_Witness ==
    /\ op.name = "stop"
    /\ op.pre.running = TRUE
    /\ running = FALSE
    /\ stt_processor # None
    /\ interaction_count = 1
    /\ metrics # <<>>

\* ----------------------------------------------- Properties of the gateway
\* `response` carries the status `status`.
HasStatus(response_, status) ==
    "status" \in DOMAIN response_ /\ response_.status = status

\* `response` carries an error message, at the top or in its data.
HasErrorMessage(response_) ==
    \/ "error" \in DOMAIN response_
    \/ "data" \in DOMAIN response_ /\ "error" \in DOMAIN response_.data

\* C31: handle_route and call_external_system answer a key that is not
\* registered and a handler that raises with an envelope of status "error"
\* that carries the message, and a handler that returns with an envelope of
\* status "success" that carries what the handler returned.
C31_Envelope ==
    op.name \in {"handle_route", "call_external_system"} =>
        IF op.outcome[1] = "return"
        THEN /\ HasStatus(op.ret, "success")
             /\ op.ret.data = op.outcome[2]
        ELSE /\ HasStatus(op.ret, "error")
             /\ HasErrorMessage(op.ret)

\* ------------------------------------------- Properties across the operations
\* C32: the active name is absent or the name of a registered module, and
\* whenever an active name is set get_active_module returns a module.
C32_ActiveIsRegistered ==
    /\ active_module = None \/ IsRegistered(active_module)
    /\ active_module # None => get_active_module # None

\* Positions in what the running invocation appended to the log whose entry
\* has the key `key`.
NewEntriesOf(key) ==
    {i \in 1..Len(NewMetrics) : MetricKey(NewMetrics[i]) = key}

\* C33: an invocation that has returned added one to the interaction counter,
\* or nothing when detect returned false; at no point has it added more than
\* one; it appends at most one stt.confidence and at most one
\* intent_recognizer.confidence metric and nothing else, an intent entry only
\* after an stt entry.
C33_OneInteractionPerInvocation ==
    pc # "idle" =>
        /\ NewInteractions \in {0, 1}
        /\ pc = "returned" => NewInteractions = (IF NonDetection THEN 0 ELSE 1)
        /\ Cardinality(NewEntriesOf("stt.confidence")) <= 1
        /\ Cardinality(NewEntriesOf("intent_recognizer.confidence")) <= 1
        /\ Len(NewMetrics) = Cardinality(NewEntriesOf("stt.confidence"))
                             + Cardinality(NewEntriesOf("intent_recognizer.confidence"))
        /\ \A i \in NewEntriesOf("intent_recognizer.confidence") :
              \E j \in NewEntriesOf("stt.confidence") : j < i

C33_Witness ==
    /\ pc = "returned"
    /\ CallOutcome("generate", "raise")
    /\ entry.interaction_count = 1
    /\ interaction_count = 2
    /\ Len(entry.metrics) = 2
    /\ Len(NewMetrics) = 2
    /\ MetricKey(NewMetrics[1]) = "stt.confidence"
    /\ MetricKey(NewMetrics[2]) = "intent_recognizer.confidence"

\* A call of the dispatch on the active module raised.
DispatchRaised == \E i \in DispatchCalls : calls[i][2] = "raise"

\* C34: when supports_intent or handle of the active module raises, generate
\* is not called in that invocation, with a fallback generator configured or
\* not, and the invocation returns no response and records one failed
\* interaction.
C34_RaisingModuleNoFallback ==
    DispatchRaised =>
        /\ ~Called("generate")
        /\ pc \in {"except", "finally", "returned"}
        /\ pc = "returned" =>
              /\ result = None
              /\ NewInteractions = 1
              /\ NewErrors = 1

C34_Witness ==
    /\ pc = "returned"
    /\ CallOutcome("handle", "raise")
    /\ response_generator # None
    /\ ~Called("generate")
    /\ result = None
    /\ NewErrors = 1

\* C35: a successful register_module under the active name leaves the active
\* name as it is, makes the new module the one the dispatch goes to, and calls
\* nothing on the replaced module.
C35_ReplaceActive ==
    (/\ op.name = "register_module"
     /\ op.ret = TRUE
     /\ op.domain_name = op.pre.active_module) =>
        /\ active_module = op.pre.active_module
        /\ get_active_module = op.module
        /\ op.log = << <<"initialize", "true", op.module>> >>

\* C36: within one dispatch, handle is called only after supports_intent
\* returned true, and on the module that supports_intent was called on,
\* whatever switch_module does in between.
C36_OneModulePerDispatch ==
    /\ Len(dispatch.log) <= 2
    /\ \A i \in 1..Len(dispatch.log) :
          dispatch.log[i][1] = "handle" =>
              /\ i = 2
              /\ dispatch.log[1] = <<"supports_intent", "true", dispatch.log[i][3]>>

C36_Witness ==
    /\ dispatch.pc = "return"
    /\ dispatch.log = << <<"supports_intent", "true", "m1">>,
                         <<"handle", "response", "m1">> >>
    /\ active_module = ""
    /\ modules["hotel"] = "m1"
    /\ modules[""] = "m2"

\* How often `e` occurs in `seq`.
Count(seq, e) == Cardinality({i \in 1..Len(seq) : seq[i] = e})

AllComplete == \A t \in Invocations : invocations[t].pc = "done"

\* C37: when both invocations are complete, interaction_count has grown by
\* the number of record_interaction calls, error_count by the number of those
\* with success false, and the log holds every metric that was recorded.
C37_NoLostWrite ==
    AllComplete =>
        /\ interaction_count = Cardinality(Invocations)
        /\ error_count = Cardinality({t \in Invocations : ~invocations[t].success})
        /\ \A e \in Range(metrics) :
              Count(metrics, e) = Count(invocations["a"].recorded, e)
                                  + Count(invocations["b"].recorded, e)
        /\ Len(metrics) = Len(invocations["a"].recorded)
                          + Len(invocations["b"].recorded)

\* The requests in which create_system() is executing.
Creating == {r \in Requests : RequestAt(r, "create_system")}

\* C38: create_system() executes in at most one request at a time, and is
\* never started when system_initialized is already true.
C38_SingleInitialization ==
    /\ Cardinality(Creating) <= 1
    /\ \A r \in Creating : ~llm.requests[r].late

====
